---- MODULE Spec2Model ----
(***************************************************************************)
(* Data-shaping logic of the komodo plotting scripts:                      *)
(*   benches/plot.py          read_data, extract, ns_to_ms, b_to_kb,       *)
(*                            plot_linalg, plot_setup, plot_commit, main   *)
(*   benchmarks/heat_map.py   shape check, reshape, missing-value pass     *)
(*   scripts/plot/plot.py     error band of plot                           *)
(*   scripts/plot/bench_commit.py   error band of the commit benchmark     *)
(* Calls into matplotlib are recorded as what is handed to the library.    *)
(***************************************************************************)
EXTENDS Integers, Sequences, FiniteSets, TLC

VARIABLES
    script,      \* which script this run executes: "bench", "heat", "plot", "commit"
    pc,          \* position of the script
    file,        \* benches/plot.py: the input path: whether it exists, and its lines
    argv,        \* heat_map.py: the `values` tokens of the command line, before argparse
    args,        \* the parsed arguments (argparse namespace)
    data,        \* benches/plot.py: `data`, the records read_data returned
    opened,      \* benches/plot.py: whether read_data opened the input file
    figs,        \* figures created, in order, each with what was drawn on it
    arr,         \* heat_map.py: `arr`, the grid
    saved,       \* output files written, in order
    shown,       \* figures displayed with plt.show(), in order
    stdout,      \* messages printed, in order
    exit_code    \* -1 while running, else the process exit code

vars == <<script, pc, file, argv, args, data, opened, figs, arr, saved, shown, stdout, exit_code>>

----------------------------------------------------------------------------
(* Bounds of the model *)

\* number of significand bits of the modelled binary floating-point format
\* (IEEE double has 53; every constant of the scripts is exact from 14 up)
Precision == 14
\* lines of the NDJSON input file
MaxLines == 2
\* values on the command line of heat_map.py
MaxValues == 6
\* |--width|, |--height| of heat_map.py
MaxDim == 3
\* graphs (groups) of scripts/plot/plot.py and bench_commit.py
MaxGraphs == 1
\* points per graph
MaxPoints == 2

----------------------------------------------------------------------------
(* Python float: round-to-nearest-even binary floating point.              *)
(* A finite float is [m, e] standing for m * 2^e, with m odd or m = e = 0  *)
(* and |m| < 2^Precision; not-a-number is NaN.                              *)

RECURSIVE Pow2(_)
Pow2(n) == IF n <= 0 THEN 1 ELSE 2 * Pow2(n - 1)

RECURSIVE BitLen(_)
BitLen(n) == IF n <= 0 THEN 0 ELSE 1 + BitLen(n \div 2)

Abs(x) == IF x < 0 THEN -x ELSE x

Sign(x) == IF x < 0 THEN -1 ELSE 1

Zero == [m |-> 0, e |-> 0]

NaN == [nan |-> TRUE]

IsNaN(x) == x = NaN

RECURSIVE Canon(_, _)
Canon(m, e) ==
    IF m = 0 THEN Zero
    ELSE IF m % 2 = 0 THEN Canon(m \div 2, e + 1)
    ELSE [m |-> m, e |-> e]

\* the float nearest to m * 2^e, ties to the even significand
Round(m, e) ==
    LET n == Abs(m)
        L == BitLen(n)
    IN  IF L <= Precision THEN Canon(m, e)
        ELSE LET s    == L - Precision
                 q    == n \div Pow2(s)
                 r    == n % Pow2(s)
                 half == Pow2(s - 1)
                 up   == r > half \/ (r = half /\ q % 2 = 1)
             IN  Canon(Sign(m) * (IF up THEN q + 1 ELSE q), e + s)

\* exact value of an integer literal that fits the significand
FromInt(n) == Round(n, 0)

\* position just above the leading bit of a non-zero float
Top(a) == a.e + BitLen(Abs(a.m))

\* whether m * 2^e is a float, i.e. Round(m, e) loses nothing
Representable(m, e) ==
    LET r == Round(m, e)
    IN  \/ m = 0
        \/ /\ r.e >= e
           /\ r.m * Pow2(r.e - e) = m

\* the exact sum of two floats, as <<m, e>> standing for m * 2^e
ExactSum(a, b) ==
    LET e == IF a.e < b.e THEN a.e ELSE b.e
    IN  <<a.m * Pow2(a.e - e) + b.m * Pow2(b.e - e), e>>

\* whether a + b is a float, i.e. the addition does not round: operands
\* Precision + 2 or more binary places apart never add exactly
SumIsExact(a, b) ==
    \/ a.m = 0
    \/ b.m = 0
    \/ /\ Top(a) - Top(b) < Precision + 2
       /\ Top(b) - Top(a) < Precision + 2
       /\ Representable(ExactSum(a, b)[1], ExactSum(a, b)[2])

\* a + b
FAdd(a, b) ==
    IF a.m = 0 THEN b
    ELSE IF b.m = 0 THEN a
    ELSE IF Top(a) - Top(b) >= Precision + 2 THEN a
    ELSE IF Top(b) - Top(a) >= Precision + 2 THEN b
    ELSE LET s == ExactSum(a, b) IN Round(s[1], s[2])

FNeg(a) == [m |-> -a.m, e |-> a.e]

\* a - b
FSub(a, b) == FAdd(a, FNeg(b))

\* a * b
FMul(a, b) == Round(a.m * b.m, a.e + b.e)

\* k more quotient bits of r / d by long division: <<quotient, remainder>>
RECURSIVE DivBits(_, _, _, _)
DivBits(r, d, k, q) ==
    IF k = 0 THEN <<q, r>>
    ELSE IF 2 * r >= d THEN DivBits(2 * r - d, d, k - 1, 2 * q + 1)
    ELSE DivBits(2 * r, d, k - 1, 2 * q)

\* a / b for b # 0 (Python true division), correctly rounded
FDiv(a, b) ==
    IF a.m = 0 THEN Zero
    ELSE LET n  == Abs(a.m)
             d  == Abs(b.m)
             k  == Precision + 2 + BitLen(d) - BitLen(n)
             qr == DivBits(n % d, d, k, n \div d)
             st == IF qr[2] # 0 THEN 1 ELSE 0
         IN  Round(Sign(a.m) * Sign(b.m) * (2 * qr[1] + st), a.e - b.e - k - 1)

----------------------------------------------------------------------------
(* Python str, as a sequence of one-character strings *)

Range(s) == {s[i] : i \in 1..Len(s)}

\* a prefix test that compares the whole string
startswith_whole(s, prefix) == s = prefix

\* s.startswith(prefix)
startswith(s, prefix) ==
    /\ Len(prefix) <= Len(s)
    /\ SubSeq(s, 1, Len(prefix)) = prefix

\* s.lstrip(chars): drops the leading characters that occur in chars
RECURSIVE lstrip(_, _)
lstrip(s, chars) ==
    IF s # <<>> /\ Head(s) \in Range(chars) THEN lstrip(Tail(s), chars) ELSE s

\* s.split(sep) for a one-character sep: the pieces between the separators
RECURSIVE split_from(_, _, _)
split_from(s, sep, piece) ==
    IF s = <<>> THEN <<piece>>
    ELSE IF Head(s) = sep THEN <<piece>> \o split_from(Tail(s), sep, <<>>)
    ELSE split_from(Tail(s), sep, Append(piece, Head(s)))

split(s, sep) == split_from(s, sep, <<>>)

Digits == <<"0", "1", "2", "3", "4", "5", "6", "7", "8", "9">>

DigitValue(c) == CHOOSE d \in 0..9 : Digits[d + 1] = c

\* whether int(s) returns (a non-empty run of decimal digits) or raises ValueError
int_ok(s) == s # <<>> /\ Range(s) \subseteq Range(Digits)

\* int(s)
RECURSIVE int_from(_, _)
int_from(s, acc) ==
    IF s = <<>> THEN acc ELSE int_from(Tail(s), 10 * acc + DigitValue(Head(s)))

int(s) == int_from(s, 0)

----------------------------------------------------------------------------
(* benches/plot.py *)

NB_NS_IN_MS == 1000000

NB_BYTES_IN_KB == 1024

None == "None"

\* the keys (starts of `$.id`) the three plot functions filter by
\* "transpose"
K_transpose ==
    <<"t", "r", "a", "n", "s", "p", "o", "s", "e">>

\* "mul"
K_mul ==
    <<"m", "u", "l">>

\* "inverse"
K_inverse ==
    <<"i", "n", "v", "e", "r", "s", "e">>

\* "setup/setup (komodo)"
K_setup_komodo ==
    <<"s", "e", "t", "u", "p", "/", "s", "e", "t", "u", "p", " ", "(", "k", "o", "m",
      "o", "d", "o", ")">>

\* "setup (arkworks)"
K_setup_arkworks ==
    <<"s", "e", "t", "u", "p", " ", "(", "a", "r", "k", "w", "o", "r", "k", "s", ")">>

\* "setup/serializing with compression"
K_ser_comp ==
    <<"s", "e", "t", "u", "p", "/", "s", "e", "r", "i", "a", "l", "i", "z", "i", "n",
      "g", " ", "w", "i", "t", "h", " ", "c", "o", "m", "p", "r", "e", "s", "s", "i",
      "o", "n">>

\* "setup/serializing with no compression"
K_ser_nocomp ==
    <<"s", "e", "t", "u", "p", "/", "s", "e", "r", "i", "a", "l", "i", "z", "i", "n",
      "g", " ", "w", "i", "t", "h", " ", "n", "o", " ", "c", "o", "m", "p", "r", "e",
      "s", "s", "i", "o", "n">>

\* "setup/deserializing with no compression and no validation"
K_de_nocomp_noval ==
    <<"s", "e", "t", "u", "p", "/", "d", "e", "s", "e", "r", "i", "a", "l", "i", "z",
      "i", "n", "g", " ", "w", "i", "t", "h", " ", "n", "o", " ", "c", "o", "m", "p",
      "r", "e", "s", "s", "i", "o", "n", " ", "a", "n", "d", " ", "n", "o", " ", "v",
      "a", "l", "i", "d", "a", "t", "i", "o", "n">>

\* "setup/deserializing with compression and no validation"
K_de_comp_noval ==
    <<"s", "e", "t", "u", "p", "/", "d", "e", "s", "e", "r", "i", "a", "l", "i", "z",
      "i", "n", "g", " ", "w", "i", "t", "h", " ", "c", "o", "m", "p", "r", "e", "s",
      "s", "i", "o", "n", " ", "a", "n", "d", " ", "n", "o", " ", "v", "a", "l", "i",
      "d", "a", "t", "i", "o", "n">>

\* "setup/deserializing with no compression and validation"
K_de_nocomp_val ==
    <<"s", "e", "t", "u", "p", "/", "d", "e", "s", "e", "r", "i", "a", "l", "i", "z",
      "i", "n", "g", " ", "w", "i", "t", "h", " ", "n", "o", " ", "c", "o", "m", "p",
      "r", "e", "s", "s", "i", "o", "n", " ", "a", "n", "d", " ", "v", "a", "l", "i",
      "d", "a", "t", "i", "o", "n">>

\* "setup/deserializing with compression and validation"
K_de_comp_val ==
    <<"s", "e", "t", "u", "p", "/", "d", "e", "s", "e", "r", "i", "a", "l", "i", "z",
      "i", "n", "g", " ", "w", "i", "t", "h", " ", "c", "o", "m", "p", "r", "e", "s",
      "s", "i", "o", "n", " ", "a", "n", "d", " ", "v", "a", "l", "i", "d", "a", "t",
      "i", "o", "n">>

\* "serialized size with no compression and no validation"
K_size_nocomp_noval ==
    <<"s", "e", "r", "i", "a", "l", "i", "z", "e", "d", " ", "s", "i", "z", "e", " ",
      "w", "i", "t", "h", " ", "n", "o", " ", "c", "o", "m", "p", "r", "e", "s", "s",
      "i", "o", "n", " ", "a", "n", "d", " ", "n", "o", " ", "v", "a", "l", "i", "d",
      "a", "t", "i", "o", "n">>

\* "serialized size with compression and no validation"
K_size_comp_noval ==
    <<"s", "e", "r", "i", "a", "l", "i", "z", "e", "d", " ", "s", "i", "z", "e", " ",
      "w", "i", "t", "h", " ", "c", "o", "m", "p", "r", "e", "s", "s", "i", "o", "n",
      " ", "a", "n", "d", " ", "n", "o", " ", "v", "a", "l", "i", "d", "a", "t", "i",
      "o", "n">>

\* "serialized size with no compression and validation"
K_size_nocomp_val ==
    <<"s", "e", "r", "i", "a", "l", "i", "z", "e", "d", " ", "s", "i", "z", "e", " ",
      "w", "i", "t", "h", " ", "n", "o", " ", "c", "o", "m", "p", "r", "e", "s", "s",
      "i", "o", "n", " ", "a", "n", "d", " ", "v", "a", "l", "i", "d", "a", "t", "i",
      "o", "n">>

\* "serialized size with compression and validation"
K_size_comp_val ==
    <<"s", "e", "r", "i", "a", "l", "i", "z", "e", "d", " ", "s", "i", "z", "e", " ",
      "w", "i", "t", "h", " ", "c", "o", "m", "p", "r", "e", "s", "s", "i", "o", "n",
      " ", "a", "n", "d", " ", "v", "a", "l", "i", "d", "a", "t", "i", "o", "n">>

\* "commit (komodo)"
K_commit_komodo ==
    <<"c", "o", "m", "m", "i", "t", " ", "(", "k", "o", "m", "o", "d", "o", ")">>

\* "commit (arkworks)"
K_commit_arkworks ==
    <<"c", "o", "m", "m", "i", "t", " ", "(", "a", "r", "k", "w", "o", "r", "k", "s",
      ")">>

\* ids of the records of the model's input files
\* "mul 4x4"
Id_mul_4x4 ==
    <<"m", "u", "l", " ", "4", "x", "4">>

\* "mul 8x8"
Id_mul_8x8 ==
    <<"m", "u", "l", " ", "8", "x", "8">>

\* "transpose 2x2"
Id_transpose_2x2 ==
    <<"t", "r", "a", "n", "s", "p", "o", "s", "e", " ", "2", "x", "2">>

\* "mul"
Id_mul_bare ==
    <<"m", "u", "l">>

\* "commit (komodo) 8"
Id_commit_komodo_8 ==
    <<"c", "o", "m", "m", "i", "t", " ", "(", "k", "o", "m", "o", "d", "o", ")", " ",
      "8">>

\* "setup/setup (komodo) 16"
Id_setup_komodo_16 ==
    <<"s", "e", "t", "u", "p", "/", "s", "e", "t", "u", "p", " ", "(", "k", "o", "m",
      "o", "d", "o", ")", " ", "1", "6">>

\* "setup (arkworks)"
Id_setup_arkworks_bare ==
    <<"s", "e", "t", "u", "p", " ", "(", "a", "r", "k", "w", "o", "r", "k", "s", ")">>

\* "serialized size with compression and validation 2"
Id_size_comp_val_2 ==
    <<"s", "e", "r", "i", "a", "l", "i", "z", "e", "d", " ", "s", "i", "z", "e", " ",
      "w", "i", "t", "h", " ", "c", "o", "m", "p", "r", "e", "s", "s", "i", "o", "n",
      " ", "a", "n", "d", " ", "v", "a", "l", "i", "d", "a", "t", "i", "o", "n", " ",
      "2">>

\* a `mean` / `median` sub-mapping of a criterion record
Estimate(est, lo, hi) ==
    [estimate |-> FromInt(est), lower_bound |-> FromInt(lo), upper_bound |-> FromInt(hi)]

IsDict(v) == "estimate" \in DOMAIN v

IsNumber(v) == "m" \in DOMAIN v

\* the parsed objects the lines of the model's input files stand for
Objects ==
    { [reason |-> "benchmark-complete", id |-> Id_mul_4x4,
       mean |-> Estimate(1200, 1100, 1300), median |-> Estimate(1210, 1110, 1310)],
      [reason |-> "benchmark-complete", id |-> Id_mul_8x8,
       mean |-> Estimate(2200, 2100, 2300), median |-> Estimate(2210, 2110, 2310)],
      [reason |-> "benchmark-complete", id |-> Id_transpose_2x2,
       mean |-> Estimate(3200, 3100, 3300), median |-> Estimate(3210, 3110, 3310)],
      [reason |-> "benchmark-complete", id |-> Id_mul_bare,
       mean |-> Estimate(4200, 4100, 4300), median |-> Estimate(4210, 4110, 4310)],
      [reason |-> "benchmark-complete", id |-> Id_commit_komodo_8,
       mean |-> Estimate(5200, 5100, 5300), median |-> Estimate(5210, 5110, 5310)],
      [reason |-> "benchmark-complete", id |-> Id_setup_komodo_16,
       mean |-> Estimate(6200, 6100, 6300), median |-> Estimate(6210, 6110, 6310)],
      [reason |-> "benchmark-complete", id |-> Id_setup_arkworks_bare,
       mean |-> Estimate(7200, 7100, 7300), median |-> Estimate(7210, 7110, 7310)],
      [reason |-> "benchmark-complete", id |-> Id_size_comp_val_2,
       mean |-> FromInt(2048), median |-> FromInt(2049)],
      [reason |-> "group-complete"] }

\* a line of the file: the text of a JSON object, or text json.loads rejects
Lines == {[json |-> TRUE, object |-> o] : o \in Objects} \cup {[json |-> FALSE]}

\* json.loads(line) returns line.object, or raises json.JSONDecodeError
json_loads_ok(line) == line.json

json_loads(line) == line.object

RECURSIVE SeqsUpTo(_, _)
SeqsUpTo(S, n) ==
    IF n = 0 THEN {<<>>}
    ELSE LET shorter == SeqsUpTo(S, n - 1)
         IN  shorter \cup {Append(s, x) : s \in {t \in shorter : Len(t) = n - 1}, x \in S}

\* an extract that starts at the second record
extract_from_second(d, k1, k2) ==
    [i \in 1..(Len(d) - 1) |-> IF k2 # None THEN d[i + 1][k1][k2] ELSE d[i + 1][k1]]

\* an extract that rejects an empty group, as a mean over no values would
extract_ok_nonempty(d, k1, k2) ==
    /\ d # <<>>
    /\ \A i \in 1..Len(d) : k2 # None => IsDict(d[i][k1])

\* extract(data, k1, k2) raises TypeError when k2 is given and line[k1] is a number
extract_ok(d, k1, k2) ==
    \A i \in 1..Len(d) : k2 # None => IsDict(d[i][k1])

extract(d, k1, k2) ==
    [i \in 1..Len(d) |-> IF k2 # None THEN d[i][k1][k2] ELSE d[i][k1]]

\* t / NB_NS_IN_MS and s / NB_BYTES_IN_KB raise TypeError on a mapping
convert_ok(values) == \A i \in 1..Len(values) : IsNumber(values[i])

\* a conversion of times by the factor of sizes
ns_to_ms_by_kb(times) == [i \in 1..Len(times) |-> FDiv(times[i], FromInt(NB_BYTES_IN_KB))]

ns_to_ms(times) == [i \in 1..Len(times) |-> FDiv(times[i], FromInt(NB_NS_IN_MS))]

b_to_kb(sizes) == [i \in 1..Len(sizes) |-> FDiv(sizes[i], FromInt(NB_BYTES_IN_KB))]

\* list(filter(lambda line: line["id"].startswith(key), data))
filter_by_key(d, key) == SelectSeq(d, LAMBDA line : startswith(line.id, key))

\* a series handed to the chart: ax.plot(x, y) and, when fill is not empty,
\* ax.fill_between(x, fill[1].down, fill[1].up); group is the filtered_data it
\* was derived from
Series(key, stat, group, x, y, fill) ==
    [key |-> key, stat |-> stat, group |-> group, x |-> x, y |-> y, fill |-> fill]

Band(down, up) == <<[down |-> down, up |-> up]>>

\* what a call of an inner `plot` did: the series it drew, and whether it raised
Returned(drawn) == [raised |-> FALSE, drawn |-> drawn]

Raised(drawn) == [raised |-> TRUE, drawn |-> drawn]

\* int(line["id"].split(' ')[1].split('x')[0]) of plot_linalg: IndexError without a
\* second piece, ValueError when the piece before 'x' is no integer
linalg_size_ok(id) ==
    /\ Len(split(id, " ")) >= 2
    /\ int_ok(split(split(id, " ")[2], "x")[1])

linalg_size(id) == int(split(split(id, " ")[2], "x")[1])

\* int(line["id"].lstrip(key).split(' ')[0]) of plot_setup and plot_commit
lstrip_size_ok(id, key) == int_ok(split(lstrip(id, key), " ")[1])

lstrip_size(id, key) == int(split(lstrip(id, key), " ")[1])

\* ns_to_ms(extract(filtered_data, k1, k2)) and whether it returns
ms_ok(d, k1, k2) == extract_ok(d, k1, k2) /\ convert_ok(extract(d, k1, k2))

ms(d, k1, k2) == ns_to_ms(extract(d, k1, k2))

\* the line with its band for statistic k1, as every timing plot draws it
TimingSeries(key, k1, group, sizes) ==
    Series(key, k1, group, sizes, ms(group, k1, "estimate"),
           Band(ms(group, k1, "lower_bound"), ms(group, k1, "upper_bound")))

timing_ok(group, k1) ==
    /\ ms_ok(group, k1, "estimate")
    /\ ms_ok(group, k1, "upper_bound")
    /\ ms_ok(group, k1, "lower_bound")

\* plot_linalg.plot(data, key, ax)
linalg_plot(d, key) ==
    LET filtered_data == filter_by_key(d, key)
        sizes == [i \in 1..Len(filtered_data) |-> linalg_size(filtered_data[i].id)]
    IN  IF \E i \in 1..Len(filtered_data) : ~linalg_size_ok(filtered_data[i].id)
        THEN Raised(<<>>)
        ELSE IF ~timing_ok(filtered_data, "mean") THEN Raised(<<>>)
        ELSE IF ~timing_ok(filtered_data, "median")
        THEN Raised(<<TimingSeries(key, "mean", filtered_data, sizes)>>)
        ELSE Returned(<<TimingSeries(key, "mean", filtered_data, sizes),
                        TimingSeries(key, "median", filtered_data, sizes)>>)

\* plot_setup.plot(data, key, label, color, error_bar, ax)
setup_plot(d, key, error_bar) ==
    LET filtered_data == filter_by_key(d, key)
        sizes == [i \in 1..Len(filtered_data) |-> lstrip_size(filtered_data[i].id, key)]
    IN  IF \E i \in 1..Len(filtered_data) : ~lstrip_size_ok(filtered_data[i].id, key)
        THEN Raised(<<>>)
        ELSE IF error_bar
        THEN IF ~timing_ok(filtered_data, "mean") THEN Raised(<<>>)
             ELSE Returned(<<TimingSeries(key, "mean", filtered_data, sizes)>>)
        ELSE IF ~convert_ok(extract(filtered_data, "mean", None)) THEN Raised(<<>>)
             ELSE Returned(<<Series(key, "mean", filtered_data, sizes,
                                    b_to_kb(extract(filtered_data, "mean", None)), <<>>)>>)

\* plot_commit.plot(data, key, color, ax)
commit_plot(d, key) ==
    LET filtered_data == filter_by_key(d, key)
        sizes == [i \in 1..Len(filtered_data) |-> lstrip_size(filtered_data[i].id, key)]
    IN  IF \E i \in 1..Len(filtered_data) : ~lstrip_size_ok(filtered_data[i].id, key)
        THEN Raised(<<>>)
        ELSE IF ~timing_ok(filtered_data, "mean") THEN Raised(<<>>)
        ELSE Returned(<<TimingSeries(key, "mean", filtered_data, sizes)>>)

\* the calls of a plot function in program order: all that was drawn up to and
\* including the first call that raised
RECURSIVE InOrder(_)
InOrder(calls) ==
    IF calls = <<>> THEN Returned(<<>>)
    ELSE IF Head(calls).raised THEN Head(calls)
    ELSE LET rest == InOrder(Tail(calls))
         IN  [raised |-> rest.raised, drawn |-> Head(calls).drawn \o rest.drawn]

\* the body of plot_linalg up to the output
linalg_calls(d) ==
    InOrder(<<linalg_plot(d, K_transpose), linalg_plot(d, K_mul), linalg_plot(d, K_inverse)>>)

\* the body of plot_setup up to the output
setup_calls(d) ==
    InOrder(<<setup_plot(d, K_setup_komodo, TRUE),
              setup_plot(d, K_setup_arkworks, TRUE),
              setup_plot(d, K_ser_comp, TRUE),
              setup_plot(d, K_ser_nocomp, TRUE),
              setup_plot(d, K_de_nocomp_noval, TRUE),
              setup_plot(d, K_de_comp_noval, TRUE),
              setup_plot(d, K_de_nocomp_val, TRUE),
              setup_plot(d, K_de_comp_val, TRUE),
              setup_plot(d, K_size_nocomp_noval, FALSE),
              setup_plot(d, K_size_comp_noval, FALSE),
              setup_plot(d, K_size_nocomp_val, FALSE),
              setup_plot(d, K_size_comp_val, FALSE)>>)

\* the body of plot_commit up to the output
commit_calls(d) ==
    InOrder(<<commit_plot(d, K_commit_komodo), commit_plot(d, K_commit_arkworks)>>)

\* a dispatch that looks at --bench before --all
Dispatch_bench_first(a) ==
    IF a.bench = "linalg" THEN "plot_linalg"
    ELSE IF a.bench = "setup" THEN "plot_setup"
    ELSE IF a.bench = "commit" THEN "plot_commit"
    ELSE IF a.all THEN "plot_linalg"
    ELSE "nothing"

\* where the main block goes after read_data returned
Dispatch(a) ==
    IF a.all THEN "plot_linalg"
    ELSE IF a.bench = None THEN "nothing"
    ELSE IF a.bench = "linalg" THEN "plot_linalg"
    ELSE IF a.bench = "setup" THEN "plot_setup"
    ELSE "plot_commit"

\* where the main block goes after a plot function returned
AfterPlot(a, chart) ==
    IF a.all /\ chart = "linalg" THEN "plot_setup"
    ELSE IF a.all /\ chart = "setup" THEN "plot_commit"
    ELSE "exited"

\* an existence test that always succeeds
path_exists_always(f) == TRUE

\* os.path.exists(data_file)
path_exists(f) == f.exists

\* map(json.loads, file.readlines()) returns when every line parses to an object
\* with a `reason`; otherwise json.JSONDecodeError or KeyError leaves read_data
loads_ok(lines) ==
    \A i \in 1..Len(lines) :
        /\ json_loads_ok(lines[i])
        /\ "reason" \in DOMAIN json_loads(lines[i])

\* a reader that keeps every parsed line
completed_unfiltered(lines) == [i \in 1..Len(lines) |-> json_loads(lines[i])]

\* list(filter(lambda line: line["reason"] == "benchmark-complete", map(json.loads, lines)))
completed(lines) ==
    SelectSeq([i \in 1..Len(lines) |-> json_loads(lines[i])],
              LAMBDA line : line.reason = "benchmark-complete")

\* read_data(args.filename), and the dispatch on its return
read_data ==
    /\ script = "bench"
    /\ pc = "read_data"
    /\ IF ~path_exists(file)
       THEN /\ stdout' = Append(stdout, "no such file")
            /\ exit_code' = 1
            /\ pc' = "exited"
            /\ UNCHANGED <<opened, data>>
       ELSE /\ opened' = TRUE
            /\ IF ~loads_ok(file.lines)
               THEN /\ stdout' = Append(stdout, "Traceback")
                    /\ exit_code' = 1
                    /\ pc' = "exited"
                    /\ UNCHANGED data
               ELSE /\ data' = completed(file.lines)
                    /\ pc' = Dispatch(args)
                    /\ UNCHANGED <<stdout, exit_code>>
    /\ UNCHANGED <<script, file, argv, args, figs, arr, saved, shown>>

\* a plot function that writes or shows its figure whatever its calls did
PlotFunction_always_output(chart, calls, output) ==
    /\ script = "bench"
    /\ figs' = Append(figs, [chart |-> chart, series |-> calls.drawn])
    /\ IF args.save
       THEN /\ saved' = Append(saved, output)
            /\ UNCHANGED shown
       ELSE /\ shown' = Append(shown, chart)
            /\ UNCHANGED saved
    /\ IF calls.raised
       THEN /\ stdout' = Append(stdout, "Traceback")
            /\ exit_code' = 1
            /\ pc' = "exited"
       ELSE /\ stdout' = stdout
            /\ pc' = AfterPlot(args, chart)
            /\ exit_code' = IF AfterPlot(args, chart) = "exited" THEN 0 ELSE exit_code
    /\ UNCHANGED <<script, file, argv, args, data, opened, arr>>

\* a plot function: the figure, the calls of its inner plot, then savefig or show
PlotFunction(chart, calls, output) ==
    /\ script = "bench"
    /\ figs' = Append(figs, [chart |-> chart, series |-> calls.drawn])
    /\ IF calls.raised
       THEN /\ stdout' = Append(stdout, "Traceback")
            /\ exit_code' = 1
            /\ pc' = "exited"
            /\ UNCHANGED <<saved, shown>>
       ELSE /\ IF args.save
               THEN /\ saved' = Append(saved, output)
                    /\ stdout' = Append(stdout, "figure saved as")
                    /\ UNCHANGED shown
               ELSE /\ shown' = Append(shown, chart)
                    /\ UNCHANGED <<saved, stdout>>
            /\ pc' = AfterPlot(args, chart)
            /\ exit_code' = IF AfterPlot(args, chart) = "exited" THEN 0 ELSE exit_code
    /\ UNCHANGED <<script, file, argv, args, data, opened, arr>>

plot_linalg ==
    /\ pc = "plot_linalg"
    /\ PlotFunction("linalg", linalg_calls(data), "linalg.png")

plot_setup ==
    /\ pc = "plot_setup"
    /\ PlotFunction("setup", setup_calls(data), "setup.png")

plot_commit ==
    /\ pc = "plot_commit"
    /\ PlotFunction("commit", commit_calls(data), "commit.png")

\* case _ of the match statement
nothing_to_do ==
    /\ script = "bench"
    /\ pc = "nothing"
    /\ stdout' = Append(stdout, "nothing to do")
    /\ exit_code' = 0
    /\ pc' = "exited"
    /\ UNCHANGED <<script, file, argv, args, data, opened, figs, arr, saved, shown>>

\* the command lines and input files of benches/plot.py
InitBench ==
    /\ script = "bench"
    /\ pc = "read_data"
    /\ file \in {[exists |-> FALSE, lines |-> <<>>]}
                \cup {[exists |-> TRUE, lines |-> l] : l \in SeqsUpTo(Lines, MaxLines)}
    /\ args \in [bench : {None, "linalg", "setup", "commit"}, all : BOOLEAN, save : BOOLEAN]
    /\ argv = <<>>
    /\ data = <<>>
    /\ opened = FALSE
    /\ figs = <<>>
    /\ arr = <<>>
    /\ saved = <<>>
    /\ shown = <<>>
    /\ stdout = <<>>
    /\ exit_code = -1

NextBench ==
    \/ read_data
    \/ plot_linalg
    \/ plot_setup
    \/ plot_commit
    \/ nothing_to_do

SpecBench == InitBench /\ [][NextBench]_vars

----------------------------------------------------------------------------
(* benchmarks/heat_map.py *)

\* tokens of the `values` positional on the command line
T_1 == <<"1">>

T_nan == <<"n", "a", "n">>

T_null == <<"n", "u", "l", "l">>

Tokens == {T_1, T_nan, T_null}

\* whether float(token) returns (a run of decimal digits, or "nan"); on anything
\* else it raises ValueError and argparse ends the process with "invalid float value"
float_ok(token) == token = T_nan \/ int_ok(token)

\* float(token)
float(token) == IF token = T_nan THEN NaN ELSE FromInt(int(token))

\* np.array(values, dtype=float).reshape((height, width)) raises ValueError on a
\* negative dimension other than a single -1
reshape_ok(values, height, width) ==
    /\ height >= 0
    /\ width >= 0
    /\ height * width = Len(values)

\* a reshape that takes the two dimensions in the other order
reshape_swapped(values, height, width) ==
    [r \in 1..width |-> [c \in 1..height |-> values[(r - 1) * height + c]]]

\* np.array(values, dtype=float).reshape((height, width)): C (row-major) order
reshape(values, height, width) ==
    [r \in 1..height |-> [c \in 1..width |-> values[(r - 1) * width + c]]]

\* x == None, element by element, on an array of dtype float
equals_None(x) == FALSE

\* np.where(arr == None, np.nan, arr)
where_None_nan(grid) ==
    [r \in 1..Len(grid) |->
        [c \in 1..Len(grid[r]) |-> IF equals_None(grid[r][c]) THEN NaN ELSE grid[r][c]]]

\* parser.parse_args(): type=float on every token of `values`
parse_args ==
    /\ script = "heat"
    /\ pc = "parse_args"
    /\ IF \A i \in 1..Len(argv) : float_ok(argv[i])
       THEN /\ args' = [args EXCEPT !.values = [i \in 1..Len(argv) |-> float(argv[i])]]
            /\ pc' = "check_shape"
            /\ UNCHANGED <<stdout, exit_code>>
       ELSE /\ stdout' = Append(stdout, "invalid float value")
            /\ exit_code' = 2
            /\ pc' = "exited"
            /\ UNCHANGED args
    /\ UNCHANGED <<script, file, argv, data, opened, figs, arr, saved, shown>>

\* a shape test that only rejects too many values
shape_mismatch_less(a) == a.width * a.height < Len(a.values)

\* args.width * args.height != len(args.values)
shape_mismatch(a) == a.width * a.height # Len(a.values)

\* if args.width * args.height != len(args.values): print bad shape, exit(1)
check_shape ==
    /\ script = "heat"
    /\ pc = "check_shape"
    /\ IF shape_mismatch(args)
       THEN /\ stdout' = Append(stdout, "bad shape")
            /\ exit_code' = 1
            /\ pc' = "exited"
       ELSE /\ pc' = "subplots"
            /\ UNCHANGED <<stdout, exit_code>>
    /\ UNCHANGED <<script, file, argv, args, data, opened, figs, arr, saved, shown>>

\* fig, ax = plt.subplots(...), the colour map and the norm
subplots ==
    /\ script = "heat"
    /\ pc = "subplots"
    /\ figs' = Append(figs, [chart |-> "heat_map", image |-> <<>>])
    /\ pc' = "grid"
    /\ UNCHANGED <<script, file, argv, args, data, opened, arr, saved, shown, stdout, exit_code>>

\* if len(args.values) > 0: arr = reshape, arr = np.where(...), plt.imshow(arr)
grid ==
    /\ script = "heat"
    /\ pc = "grid"
    /\ IF Len(args.values) = 0
       THEN /\ pc' = "output"
            /\ UNCHANGED <<arr, figs, stdout, exit_code>>
       ELSE IF ~reshape_ok(args.values, args.height, args.width)
       THEN /\ stdout' = Append(stdout, "Traceback")
            /\ exit_code' = 1
            /\ pc' = "exited"
            /\ UNCHANGED <<arr, figs>>
       ELSE /\ arr' = where_None_nan(reshape(args.values, args.height, args.width))
            /\ figs' = [figs EXCEPT ![Len(figs)].image = <<arr'>>]
            /\ pc' = "output"
            /\ UNCHANGED <<stdout, exit_code>>
    /\ UNCHANGED <<script, file, argv, args, data, opened, saved, shown>>

\* if args.save is not None: plt.savefig(args.save) else plt.show()
output ==
    /\ script = "heat"
    /\ pc = "output"
    /\ IF args.save # None
       THEN /\ saved' = Append(saved, args.save)
            /\ stdout' = Append(stdout, "Generated")
            /\ UNCHANGED shown
       ELSE /\ shown' = Append(shown, "heat_map")
            /\ UNCHANGED <<saved, stdout>>
    /\ exit_code' = 0
    /\ pc' = "exited"
    /\ UNCHANGED <<script, file, argv, args, data, opened, figs, arr>>

\* the command lines of heat_map.py
InitHeat ==
    /\ script = "heat"
    /\ pc = "parse_args"
    /\ argv \in SeqsUpTo(Tokens, MaxValues)
    /\ args \in [values : {<<>>}, width : -MaxDim..MaxDim, height : -MaxDim..MaxDim,
                 save : {None, "heat_map.png"}]
    /\ file = [exists |-> FALSE, lines |-> <<>>]
    /\ data = <<>>
    /\ opened = FALSE
    /\ figs = <<>>
    /\ arr = <<>>
    /\ saved = <<>>
    /\ shown = <<>>
    /\ stdout = <<>>
    /\ exit_code = -1

NextHeat ==
    \/ parse_args
    \/ check_shape
    \/ subplots
    \/ grid
    \/ output

SpecHeat == InitHeat /\ [][NextHeat]_vars

----------------------------------------------------------------------------
(* scripts/plot/plot.py and scripts/plot/bench_commit.py *)

\* a lower bound that is clipped at zero
band_down_clipped(ys, zs) ==
    [i \in 1..(IF Len(ys) < Len(zs) THEN Len(ys) ELSE Len(zs)) |->
        IF FSub(ys[i], zs[i]).m < 0 THEN Zero ELSE FSub(ys[i], zs[i])]

\* down = [y - z for (y, z) in zip(ys, zs)]
band_down(ys, zs) ==
    [i \in 1..(IF Len(ys) < Len(zs) THEN Len(ys) ELSE Len(zs)) |-> FSub(ys[i], zs[i])]

\* up = [y + z for (y, z) in zip(ys, zs)]
band_up(ys, zs) ==
    [i \in 1..(IF Len(ys) < Len(zs) THEN Len(ys) ELSE Len(zs)) |-> FAdd(ys[i], zs[i])]

\* what one turn of the loop hands to the chart: ax.plot(xs, ys) and
\* ax.fill_between(xs, down, up); e keeps the error magnitudes zs
Curve(name, xs, ys, zs) ==
    [name |-> name, x |-> xs, y |-> ys, e |-> zs,
     down |-> band_down(ys, zs), up |-> band_up(ys, zs)]

\* the loop body of plot for one graph g
graph_curve(g) ==
    Curve(g.name,
          [i \in 1..Len(g.points) |-> g.points[i].x],
          [i \in 1..Len(g.points) |-> g.points[i].y],
          [i \in 1..Len(g.points) |-> g.points[i].e])

\* the loop body of bench_commit.py for one group
group_curve(group) ==
    Curve(group.group,
          [i \in 1..Len(group.items) |-> group.items[i].degree],
          [i \in 1..Len(group.items) |-> FDiv(group.items[i].mean, FromInt(NB_NS_IN_MS))],
          [i \in 1..Len(group.items) |-> FDiv(group.items[i].stddev, FromInt(NB_NS_IN_MS))])

\* plot(json.loads(args.graphs), ..., save=args.save)
plot ==
    /\ script = "plot"
    /\ pc = "plot"
    /\ IF ~json_loads_ok(argv)
       THEN /\ stdout' = Append(stdout, "Traceback")
            /\ exit_code' = 1
            /\ UNCHANGED <<figs, saved, shown>>
       ELSE /\ figs' = Append(figs,
                   [chart |-> "plot",
                    series |-> [k \in 1..Len(json_loads(argv)) |-> graph_curve(json_loads(argv)[k])]])
            /\ IF args.save # None
               THEN /\ saved' = Append(saved, args.save)
                    /\ stdout' = Append(stdout, "plot saved as")
                    /\ UNCHANGED shown
               ELSE /\ shown' = Append(shown, "plot")
                    /\ UNCHANGED <<saved, stdout>>
            /\ exit_code' = 0
    /\ pc' = "exited"
    /\ UNCHANGED <<script, file, argv, args, data, opened, arr>>

\* the main block of bench_commit.py
bench_commit ==
    /\ script = "commit"
    /\ pc = "bench_commit"
    /\ IF ~json_loads_ok(argv)
       THEN /\ stdout' = Append(stdout, "Traceback")
            /\ exit_code' = 1
            /\ UNCHANGED <<figs, shown>>
       ELSE /\ figs' = Append(figs,
                   [chart |-> "bench_commit",
                    series |-> [k \in 1..Len(json_loads(argv)) |-> group_curve(json_loads(argv)[k])]])
            /\ shown' = Append(shown, "bench_commit")
            /\ exit_code' = 0
            /\ UNCHANGED stdout
    /\ pc' = "exited"
    /\ UNCHANGED <<script, file, argv, args, data, opened, arr, saved>>

\* the points of the model's graphs: small values, and one at the edge of the
\* significand, where adding 1 rounds
Points ==
    [x : {FromInt(1)},
     y : {FromInt(1), FromInt(Pow2(Precision))},
     e : {FromInt(1), FromInt(3)}]

Graphs == [name : {"Alice"}, points : SeqsUpTo(Points, MaxPoints)]

\* the items of the model's groups, in nanoseconds
Items ==
    [degree : {FromInt(1)},
     mean : {FromInt(1), FromInt(2000000)},
     stddev : {FromInt(1000000), FromInt(4000000)}]

Groups == [group : {"bls12-381"}, items : SeqsUpTo(Items, MaxPoints)]

\* the command lines of plot.py and bench_commit.py: a JSON argument or text
\* json.loads rejects
InitBand ==
    /\ \/ /\ script = "plot"
          /\ pc = "plot"
          /\ argv \in {[json |-> TRUE, object |-> g] : g \in SeqsUpTo(Graphs, MaxGraphs)}
                      \cup {[json |-> FALSE]}
          /\ args \in [save : {None, "plot.png"}]
       \/ /\ script = "commit"
          /\ pc = "bench_commit"
          /\ argv \in {[json |-> TRUE, object |-> g] : g \in SeqsUpTo(Groups, MaxGraphs)}
                      \cup {[json |-> FALSE]}
          /\ args = [save |-> None]
    /\ file = [exists |-> FALSE, lines |-> <<>>]
    /\ data = <<>>
    /\ opened = FALSE
    /\ figs = <<>>
    /\ arr = <<>>
    /\ saved = <<>>
    /\ shown = <<>>
    /\ stdout = <<>>
    /\ exit_code = -1

NextBand ==
    \/ plot
    \/ bench_commit

SpecBand == InitBand /\ [][NextBand]_vars

----------------------------------------------------------------------------
(* scripts/plot/multi_bar.py *)

\* A dict is the sequence of its items [key, value] in insertion order, the keys
\* distinct: list(d.keys()), `k in d` and d[k]
keys(d) == [i \in 1..Len(d) |-> d[i].key]

has_key(d, k) == \E i \in 1..Len(d) : d[i].key = k

getitem(d, k) == d[CHOOSE i \in 1..Len(d) : d[i].key = k].value

\* extract(data) of multi_bar.py raises IndexError at groups[0] on an empty dict
\* and KeyError at data[g][x] when a name of the first group is missing in a group
multi_bar_extract_ok(d) ==
    /\ d # <<>>
    /\ \A i \in 1..Len(d[1].value) :
           \A g \in 1..Len(d) : has_key(d[g].value, d[1].value[i].key)

\* extract(data) of multi_bar.py: (groups, measurements)
multi_bar_extract(d) ==
    LET groups == keys(d)
        names == keys(getitem(d, groups[1]))
    IN  [groups |-> groups,
         measurements |->
             [i \in 1..Len(names) |->
                 [key |-> names[i],
                  value |-> [g \in 1..Len(groups) |->
                                getitem(getitem(d, groups[g]), names[i])]]]]

\* the default bar width of plot_multi_bar, 0.25
bar_width == FDiv(FromInt(1), FromInt(4))

\* labels_locations + offset, with labels_locations = np.arange(len(groups)) and
\* offset = width * multiplier
bar_locations(n, multiplier) ==
    [j \in 1..n |-> FAdd(FromInt(j - 1), FMul(bar_width, FromInt(multiplier)))]

\* the main block up to the call of plot_multi_bar: json.loads, then extract
multi_bar ==
    /\ script = "multi_bar"
    /\ pc = "extract"
    /\ IF ~json_loads_ok(args.data) \/ ~multi_bar_extract_ok(json_loads(args.data))
       THEN /\ stdout' = Append(stdout, "Traceback")
            /\ exit_code' = 1
            /\ pc' = "exited"
            /\ UNCHANGED data
       ELSE /\ data' = multi_bar_extract(json_loads(args.data))
            /\ pc' = "plot_multi_bar"
            /\ UNCHANGED <<stdout, exit_code>>
    /\ UNCHANGED <<script, file, argv, args, opened, figs, arr, saved, shown>>

\* plot_multi_bar(groups, measurements, ...): one set of bars per measurement, in
\* the order of the measurements, then savefig or show
plot_multi_bar ==
    /\ script = "multi_bar"
    /\ pc = "plot_multi_bar"
    /\ figs' = <<[chart |-> "multi_bar",
                  layout |-> IF args.fullscreen THEN "constrained" ELSE None,
                  ticks |-> data.groups,
                  series |-> [i \in 1..Len(data.measurements) |->
                                 [label |-> data.measurements[i].key,
                                  x |-> bar_locations(Len(data.groups), i - 1),
                                  y |-> data.measurements[i].value]]]>>
    /\ IF args.save # None
       THEN /\ saved' = Append(saved, args.save)
            /\ stdout' = Append(stdout, "plot saved as")
            /\ UNCHANGED shown
       ELSE /\ shown' = Append(shown, "multi_bar")
            /\ UNCHANGED <<saved, stdout>>
    /\ pc' = "exited"
    /\ exit_code' = 0
    /\ UNCHANGED <<script, file, argv, args, data, opened, arr>>

\* the group and name pools of the inputs, from the example of the doc comment
GroupNames == {"age", "height", "weight"}

PersonNames == {"alice", "bob", "charlie"}

\* the number json.loads reads from the decimal n / 10^k
Decimal(n, tenth) == FDiv(FromInt(n), FromInt(tenth))

\* the values of the example of the doc comment: a row per group (age, height,
\* weight), a column per name (alice, bob, charlie)
ExampleValues ==
    <<<<Decimal(31, 1), Decimal(28, 1), Decimal(44, 1)>>,
      <<Decimal(150, 100), Decimal(182, 100), Decimal(165, 100)>>,
      <<Decimal(653, 10), Decimal(981, 10), Decimal(687, 10)>>>>

Measured(group, name) ==
    ExampleValues[IF group = "age" THEN 1 ELSE IF group = "height" THEN 2 ELSE 3]
                 [IF name = "alice" THEN 1 ELSE IF name = "bob" THEN 2 ELSE 3]

\* the sequences over S without repetition
DistinctSeqs(S) ==
    {q \in SeqsUpTo(S, Cardinality(S)) : \A i, j \in 1..Len(q) : i # j => q[i] # q[j]}

\* the inner dicts of a group: any names of the pool in any order
InnerDicts(group) ==
    {[i \in 1..Len(q) |-> [key |-> q[i], value |-> Measured(group, q[i])]] :
        q \in DistinctSeqs(PersonNames)}

\* the dicts with the top-level keys gs, in that order
RECURSIVE DictsOver(_)
DictsOver(gs) ==
    IF gs = <<>> THEN {<<>>}
    ELSE {<<[key |-> Head(gs), value |-> v]>> \o rest :
             v \in InnerDicts(Head(gs)), rest \in DictsOver(Tail(gs))}

\* the `data` arguments with top-level keys of pool: the text of a JSON object of
\* objects, or text json.loads rejects
DataArguments(pool) ==
    {[json |-> TRUE, object |-> o] : o \in UNION {DictsOver(gs) : gs \in DistinctSeqs(pool)}}
        \cup {[json |-> FALSE]}

\* the command lines of multi_bar.py
InitMultiBar ==
    /\ script = "multi_bar"
    /\ pc = "extract"
    /\ args \in [data : DataArguments(GroupNames), save : {None, "out.png"}, fullscreen : BOOLEAN]
    /\ file = [exists |-> FALSE, lines |-> <<>>]
    /\ argv = <<>>
    /\ data = <<>>
    /\ opened = FALSE
    /\ figs = <<>>
    /\ arr = <<>>
    /\ saved = <<>>
    /\ shown = <<>>
    /\ stdout = <<>>
    /\ exit_code = -1

NextMultiBar ==
    \/ multi_bar
    \/ plot_multi_bar

SpecMultiBar == InitMultiBar /\ [][NextMultiBar]_vars

----------------------------------------------------------------------------
(* Properties of benches/plot.py *)

\* the i-th smallest element of a set of indices
Nth(S, i) == CHOOSE j \in S : Cardinality({k \in S : k < j}) = i - 1

\* sub is made of the elements of full at the indices keep, each once, in the
\* order of full
IsOrderedSelection(sub, full, keep) ==
    /\ Len(sub) = Cardinality(keep)
    /\ \A i \in 1..Len(sub) : sub[i] = full[Nth(keep, i)]

\* the objects of the lines of a well-formed file
Parsed(lines) == [i \in 1..Len(lines) |-> lines[i].object]

WellFormed(lines) ==
    \A i \in 1..Len(lines) : lines[i].json /\ "reason" \in DOMAIN lines[i].object

ReadReturned == script = "bench" /\ pc # "read_data" /\ file.exists /\ WellFormed(file.lines)

\* C1: for a well-formed input file, read_data returns exactly the records whose
\* `reason` is "benchmark-complete", each once, in the order of the file.
C1_ReadDataKeepsCompleted ==
    ReadReturned =>
        IsOrderedSelection(data, Parsed(file.lines),
            {j \in 1..Len(file.lines) : Parsed(file.lines)[j].reason = "benchmark-complete"})

\* C1 witness: read_data returned from a file of two lines, dropping the first
\* (another reason) and keeping the second
C1_Witness ==
    /\ ReadReturned
    /\ Len(file.lines) = 2
    /\ Parsed(file.lines)[1].reason = "group-complete"
    /\ data = <<Parsed(file.lines)[2]>>

AllKeys ==
    {K_transpose, K_mul, K_inverse, K_setup_komodo, K_setup_arkworks, K_ser_comp,
     K_ser_nocomp, K_de_nocomp_noval, K_de_comp_noval, K_de_nocomp_val, K_de_comp_val,
     K_size_nocomp_noval, K_size_comp_noval, K_size_nocomp_val, K_size_comp_val,
     K_commit_komodo, K_commit_arkworks}

\* every series drawn so far, with the chart it was drawn on
DrawnSeries ==
    UNION {{[chart |-> figs[f].chart, s |-> figs[f].series[i]] :
               i \in 1..Len(figs[f].series)} : f \in 1..Len(figs)}

\* p is an initial segment of s
IsPrefix(p, s) == Len(p) <= Len(s) /\ \A i \in 1..Len(p) : s[i] = p[i]

\* the indices of the records of d whose id starts with key
Matching(d, key) == {j \in 1..Len(d) : IsPrefix(key, d[j].id)}

\* C2: the group filter of plot_linalg, plot_setup and plot_commit returns the
\* records whose `id` starts with the prefix, all of them, in the order of the
\* record sequence: for every key the functions use, and for every group drawn.
C2_GroupFilterIsPrefixSelection ==
    (script = "bench" /\ pc # "read_data") =>
        /\ \A key \in AllKeys :
               IsOrderedSelection(filter_by_key(data, key), data, Matching(data, key))
        /\ \A d \in DrawnSeries :
               IsOrderedSelection(d.s.group, data, Matching(data, d.s.key))

\* C2 witness: the records "mul 4x4", "transpose 2x2" were filtered by "mul" and the
\* group drawn holds the first record only
C2_Witness ==
    /\ script = "bench"
    /\ Len(data) = 2
    /\ data[1].id = Id_mul_4x4
    /\ data[2].id = Id_transpose_2x2
    /\ \E d \in DrawnSeries : d.s.key = K_mul /\ d.s.group = <<data[1]>>

\* the four serialized-size keys, which plot_setup draws with error_bar = False
SizeKeys == {K_size_nocomp_noval, K_size_comp_noval, K_size_nocomp_val, K_size_comp_val}

\* C6: extract followed by ns_to_ms (factor 1,000,000) or b_to_kb (factor 1,024)
\* gives one element per record, the i-th being the i-th record's field
\* (record[k1][k2], or record[k1] when k2 is None) divided by the factor.
C6_ExtractThenConvert ==
    script = "bench" =>
        \A d \in DrawnSeries :
            LET s == d.s
                n == Len(s.group)
            IN  /\ Len(s.y) = n
                /\ IF s.key \in SizeKeys
                   THEN \A i \in 1..n : s.y[i] = FDiv(s.group[i]["mean"], FromInt(1024))
                   ELSE /\ Len(s.fill) = 1
                        /\ Len(s.fill[1].down) = n
                        /\ Len(s.fill[1].up) = n
                        /\ \A i \in 1..n :
                               /\ s.y[i] = FDiv(s.group[i][s.stat]["estimate"], FromInt(1000000))
                               /\ s.fill[1].down[i] =
                                      FDiv(s.group[i][s.stat]["lower_bound"], FromInt(1000000))
                               /\ s.fill[1].up[i] =
                                      FDiv(s.group[i][s.stat]["upper_bound"], FromInt(1000000))

\* C6 witness: the medians of the group "mul 4x4", "mul 8x8" were drawn, in
\* milliseconds and in the order of the records
C6_Witness ==
    /\ script = "bench"
    /\ \E d \in DrawnSeries :
           /\ d.s.stat = "median"
           /\ Len(d.s.group) = 2
           /\ d.s.group[1].id = Id_mul_4x4
           /\ d.s.group[2].id = Id_mul_8x8
           /\ d.s.y = <<FDiv(FromInt(1210), FromInt(1000000)), FDiv(FromInt(2210), FromInt(1000000))>>

\* the x-value the chart's inner plot parses from an id
SizeOf(chart, id, key) ==
    IF chart = "linalg" THEN linalg_size(id) ELSE lstrip_size(id, key)

\* C7 as claimed: every group drawn has four sequences (x-values, central values,
\* lower bounds, upper bounds) of the length of the group.
C7_AsClaimed ==
    script = "bench" =>
        \A d \in DrawnSeries :
            /\ Len(d.s.x) = Len(d.s.group)
            /\ Len(d.s.y) = Len(d.s.group)
            /\ Len(d.s.fill) = 1
            /\ Len(d.s.fill[1].down) = Len(d.s.group)
            /\ Len(d.s.fill[1].up) = Len(d.s.group)

\* C7 amended: a group drawn with an error band has four sequences of the length
\* of the group, index i coming from the i-th record; the four serialized-size
\* groups of plot_setup are drawn without lower and upper bounds and have the two
\* sequences x-values and central values, of the length of the group.
C7_SeriesAligned ==
    script = "bench" =>
        \A d \in DrawnSeries :
            LET s == d.s
                n == Len(s.group)
            IN  /\ Len(s.x) = n
                /\ Len(s.y) = n
                /\ \A i \in 1..n : s.x[i] = SizeOf(d.chart, s.group[i].id, s.key)
                /\ IF d.chart = "setup" /\ s.key \in SizeKeys
                   THEN /\ s.fill = <<>>
                        /\ \A i \in 1..n : s.y[i] = b_to_kb(<<s.group[i]["mean"]>>)[1]
                   ELSE /\ Len(s.fill) = 1
                        /\ Len(s.fill[1].down) = n
                        /\ Len(s.fill[1].up) = n
                        /\ \A i \in 1..n :
                               /\ s.y[i] = ns_to_ms(<<s.group[i][s.stat]["estimate"]>>)[1]
                               /\ s.fill[1].down[i] = ns_to_ms(<<s.group[i][s.stat]["lower_bound"]>>)[1]
                               /\ s.fill[1].up[i] = ns_to_ms(<<s.group[i][s.stat]["upper_bound"]>>)[1]

\* C7 witness: the group "mul 4x4", "mul 8x8" of plot_linalg was drawn with the
\* x-values 4, 8 and a band of two lower and two upper bounds
C7_Witness ==
    /\ script = "bench"
    /\ \E d \in DrawnSeries :
           /\ d.chart = "linalg"
           /\ d.s.key = K_mul
           /\ Len(d.s.group) = 2
           /\ d.s.x = <<4, 8>>
           /\ Len(d.s.y) = 2
           /\ Len(d.s.fill[1].down) = 2
           /\ Len(d.s.fill[1].up) = 2

\* C8: when the input path does not exist, read_data prints "no such file" and the
\* process ends with exit code 1; no file was opened, no record returned, no
\* figure made, shown or saved, whatever --bench, --all and --save are.
C8_MissingFileExits ==
    (script = "bench" /\ ~file.exists /\ pc # "read_data") =>
        /\ pc = "exited"
        /\ exit_code = 1
        /\ stdout = <<"no such file">>
        /\ ~opened
        /\ data = <<>>
        /\ figs = <<>>
        /\ saved = <<>>
        /\ shown = <<>>

\* C8 witness: a run with --all --save --bench linalg on a missing path has ended
C8_Witness ==
    /\ script = "bench"
    /\ ~file.exists
    /\ args.all
    /\ args.save
    /\ args.bench = "linalg"
    /\ pc = "exited"
    /\ exit_code = 1

\* the charts the command line asks for, in the order the main block runs them
Requested ==
    IF args.all THEN <<"linalg", "setup", "commit">>
    ELSE IF args.bench = None THEN <<>>
    ELSE <<args.bench>>

ChartOfFile(png) ==
    IF png = "linalg.png" THEN "linalg" ELSE IF png = "setup.png" THEN "setup" ELSE "commit"

\* the charts written to a file or shown so far, in order
Produced ==
    IF args.save THEN [i \in 1..Len(saved) |-> ChartOfFile(saved[i])] ELSE shown

\* what the inner plot calls of a chart do on the records read
CallsOf(chart) ==
    IF chart = "linalg" THEN linalg_calls(data)
    ELSE IF chart = "setup" THEN setup_calls(data)
    ELSE commit_calls(data)

\* C9 as claimed: at the end of every run either every requested chart was
\* produced or no chart output exists.
C9_AsClaimed ==
    (script = "bench" /\ pc = "exited") =>
        \/ Produced = Requested
        \/ saved = <<>> /\ shown = <<>>

\* C9 amended: each chart is all-or-nothing (it is written or shown only when all
\* its groups were prepared without error), a run is not: the charts produced
\* are the requested ones before the first that fails, and they stay.
C9_ChartAllOrNothing ==
    script = "bench" =>
        /\ IsPrefix(Produced, Requested)
        /\ \A i \in 1..Len(Produced) :
               /\ figs[i].chart = Produced[i]
               /\ ~CallsOf(Produced[i]).raised
               /\ figs[i].series = CallsOf(Produced[i]).drawn
        /\ (pc = "exited" /\ exit_code = 0) => Produced = Requested
        /\ (pc = "exited" /\ exit_code = 1 /\ figs # <<>>) =>
               /\ Len(Produced) < Len(Requested)
               /\ CallsOf(Requested[Len(Produced) + 1]).raised

\* C9 witness: a run with --all --save ended with exit code 1 in plot_setup, after
\* linalg.png was written
C9_Witness ==
    /\ script = "bench"
    /\ args.all
    /\ args.save
    /\ pc = "exited"
    /\ exit_code = 1
    /\ saved = <<"linalg.png">>
    /\ Len(figs) = 2

\* the prefixes a chart's plot function passes to its inner plot, in program order
KeysOf(chart) ==
    IF chart = "linalg" THEN <<K_transpose, K_mul, K_inverse>>
    ELSE IF chart = "setup"
    THEN <<K_setup_komodo, K_setup_arkworks, K_ser_comp, K_ser_nocomp,
           K_de_nocomp_noval, K_de_comp_noval, K_de_nocomp_val, K_de_comp_val,
           K_size_nocomp_noval, K_size_comp_noval, K_size_nocomp_val, K_size_comp_val>>
    ELSE <<K_commit_komodo, K_commit_arkworks>>

\* no record read has an id that starts with key
Unmatched(key) == \A j \in 1..Len(data) : ~IsPrefix(key, data[j].id)

\* the positions of the series of figure f drawn for the group of key
SeriesOf(f, key) == {i \in 1..Len(figs[f].series) : figs[f].series[i].key = key}

\* the inner plot returned for the group of key: plot_linalg draws a mean and a
\* median line per group, plot_setup and plot_commit one line
GroupDrawn(f, key) ==
    Cardinality(SeriesOf(f, key)) = IF figs[f].chart = "linalg" THEN 2 ELSE 1

\* a series of an empty group: no x-value, no central value, and no lower or
\* upper bound in the band when a band is drawn
IsEmptySeries(s) ==
    /\ s.group = <<>>
    /\ s.x = <<>>
    /\ s.y = <<>>
    /\ \A b \in 1..Len(s.fill) : s.fill[b].down = <<>> /\ s.fill[b].up = <<>>

\* C11: a prefix that matches no record is not an error. When the groups before
\* it were drawn, its own group is drawn too, from the empty sequence, with empty
\* x-values, central values, lower and upper bounds; the plot function goes on
\* with the groups after it, and once every group is drawn it writes or shows the
\* chart, and a run that ends with it exits 0. So a plot function whose prefixes
\* all match nothing completes normally.
C11_UnmatchedPrefixIsNoError ==
    script = "bench" =>
        \A f \in 1..Len(figs) :
            LET prefixes == KeysOf(figs[f].chart)
            IN  /\ \A p \in 1..Len(prefixes) :
                       (Unmatched(prefixes[p]) /\ \A q \in 1..(p - 1) : GroupDrawn(f, prefixes[q])) =>
                           /\ GroupDrawn(f, prefixes[p])
                           /\ \A i \in SeriesOf(f, prefixes[p]) : IsEmptySeries(figs[f].series[i])
                /\ (\A p \in 1..Len(prefixes) : GroupDrawn(f, prefixes[p])) =>
                       /\ f <= Len(Produced)
                       /\ Produced[f] = figs[f].chart
                       /\ (f = Len(figs) /\ pc = "exited") => exit_code = 0

\* C11 witness: plot_setup ran on the one record "setup/setup (komodo) 16"; the
\* eleven other prefixes matched nothing, their groups were drawn empty after the
\* first group, and setup.png was written
C11_Witness ==
    /\ script = "bench"
    /\ pc = "exited"
    /\ exit_code = 0
    /\ Len(data) = 1
    /\ data[1].id = Id_setup_komodo_16
    /\ saved = <<"setup.png">>
    /\ Len(figs) = 1
    /\ Len(figs[1].series) = 12
    /\ figs[1].series[1].group = data
    /\ \A i \in 2..12 :
           /\ Unmatched(figs[1].series[i].key)
           /\ IsEmptySeries(figs[1].series[i])

\* the plot functions run so far, in the order they were entered
Ran == [i \in 1..Len(figs) |-> figs[i].chart]

\* the step at which the main block calls the plot function of a chart
StepOf(chart) ==
    IF chart = "linalg" THEN "plot_linalg"
    ELSE IF chart = "setup" THEN "plot_setup"
    ELSE "plot_commit"

\* C13 as claimed: after a successful read, a run with --all ends having run
\* plot_linalg, plot_setup, plot_commit in that order, each once, with exit code
\* 0, whatever --bench is; a run without --all and with --bench ends having run
\* exactly the plot function named; a run with neither ends having run no plot
\* function, written no file and printed only the "nothing to do" message.
C13_AsClaimed ==
    (ReadReturned /\ pc = "exited") =>
        IF args.all
        THEN Ran = <<"linalg", "setup", "commit">> /\ exit_code = 0
        ELSE IF args.bench # None
        THEN Ran = <<args.bench>>
        ELSE /\ Ran = <<>>
             /\ saved = <<>>
             /\ shown = <<>>
             /\ stdout = <<"nothing to do">>

\* C13 amended: after a successful read the plot functions run are the requested
\* ones (with --all: linalg, setup, commit, whatever --bench is; without --all:
\* the one named by --bench; with neither: none), in that order, each at most
\* once, the next starting only when the one before returned. A run in which
\* none raises runs each requested one exactly once and exits 0; a plot function
\* that raises ends the run with exit code 1 and those after it are not run. With
\* neither option no plot function runs, no file is written and only the
\* "nothing to do" message is printed.
C13_DispatchInOrder ==
    ReadReturned =>
        /\ IsPrefix(Ran, Requested)
        /\ \A i \in 1..(Len(Ran) - 1) : ~CallsOf(Ran[i]).raised
        /\ pc # "exited" =>
               /\ \A i \in 1..Len(Ran) : ~CallsOf(Ran[i]).raised
               /\ IF Requested = <<>>
                  THEN pc = "nothing"
                  ELSE /\ Len(Ran) < Len(Requested)
                       /\ pc = StepOf(Requested[Len(Ran) + 1])
        /\ pc = "exited" =>
               IF Requested = <<>>
               THEN /\ Ran = <<>>
                    /\ saved = <<>>
                    /\ shown = <<>>
                    /\ stdout = <<"nothing to do">>
                    /\ exit_code = 0
               ELSE /\ Ran # <<>>
                    /\ IF CallsOf(Ran[Len(Ran)]).raised
                       THEN exit_code = 1
                       ELSE Ran = Requested /\ exit_code = 0

\* C13 witness: a run with --all --bench commit on a readable file has run
\* plot_linalg, plot_setup and plot_commit, in that order, and exited with 0
C13_Witness ==
    /\ ReadReturned
    /\ args.all
    /\ args.bench = "commit"
    /\ pc = "exited"
    /\ exit_code = 0
    /\ Ran = <<"linalg", "setup", "commit">>

----------------------------------------------------------------------------
(* Properties of benchmarks/heat_map.py *)

\* the command line was accepted by argparse and the shape check has run
ShapeChecked == script = "heat" /\ pc \notin {"parse_args", "check_shape"} /\ exit_code # 2

\* the step that builds the grid has run (it follows the creation of the figure)
GridStepDone ==
    /\ script = "heat"
    /\ figs # <<>>
    /\ pc \in {"output", "exited"}

\* g has `height` rows of `width` columns and holds values[p] at row p // width,
\* column p % width (positions from 0)
IsRowMajor(g, values, width, height) ==
    /\ Len(g) = height
    /\ \A r \in 1..Len(g) : Len(g[r]) = width
    /\ \A p \in 0..(Len(values) - 1) : g[(p \div width) + 1][(p % width) + 1] = values[p + 1]

\* the rows of a grid one after the other
RECURSIVE Flatten(_)
Flatten(g) == IF g = <<>> THEN <<>> ELSE Head(g) \o Flatten(Tail(g))

C4_ShapeMismatchExits ==
    ShapeChecked =>
        IF args.width * args.height # Len(args.values)
        THEN /\ pc = "exited"
             /\ exit_code = 1
             /\ stdout = <<"bad shape">>
             /\ figs = <<>>
             /\ arr = <<>>
             /\ saved = <<>>
             /\ shown = <<>>
        ELSE \A i \in 1..Len(stdout) : stdout[i] # "bad shape"

\* C4 witness: three values for width 2 and height 2, with --save, ended by the
\* shape check
C4_Witness ==
    /\ ShapeChecked
    /\ Len(args.values) = 3
    /\ args.width = 2
    /\ args.height = 2
    /\ args.save # None
    /\ exit_code = 1

\* C10 as claimed: every null/missing value of the command line is the
\* not-a-number sentinel at its row-major position of the grid, and every other
\* value is there unchanged.
C10_AsClaimed ==
    (/\ script = "heat"
     /\ pc = "exited"
     /\ args.width > 0
     /\ args.height > 0
     /\ args.width * args.height = Len(argv)) =>
        /\ Len(arr) = args.height
        /\ \A r \in 1..Len(arr) : Len(arr[r]) = args.width
        /\ \A p \in 0..(Len(argv) - 1) :
               LET cell == arr[(p \div args.width) + 1][(p % args.width) + 1]
               IN  IF argv[p + 1] \in {T_null, T_nan}
                   THEN IsNaN(cell)
                   ELSE cell = FromInt(int(argv[p + 1]))

----------------------------------------------------------------------------
(* Properties of scripts/plot/plot.py and scripts/plot/bench_commit.py *)

\* the curves drawn by plot.py or bench_commit.py
Curves ==
    IF script \in {"plot", "commit"}
    THEN UNION {Range(figs[f].series) : f \in 1..Len(figs)}
    ELSE {}

\* y - e and y + e are floats, i.e. neither operation rounds
BandIsExact(y, e) == SumIsExact(y, FNeg(e)) /\ SumIsExact(y, e)

\* upper - lower == 2 * e and (lower + upper) / 2 == y, as Python evaluates them
BandIdentities(lower, upper, y, e) ==
    /\ FSub(upper, lower) = FMul(FromInt(2), e)
    /\ FDiv(FAdd(lower, upper), FromInt(2)) = y

\* C5 as claimed: lower[i] = y[i] - e[i], upper[i] = y[i] + e[i], unclamped, so
\* that upper[i] - lower[i] == 2 * e[i] and (lower[i] + upper[i]) / 2 == y[i],
\* for every point of every graph.
C5_AsClaimed ==
    \A c \in Curves :
        /\ Len(c.down) = Len(c.y)
        /\ Len(c.up) = Len(c.y)
        /\ \A i \in 1..Len(c.y) :
               /\ c.down[i] = FSub(c.y[i], c.e[i])
               /\ c.up[i] = FAdd(c.y[i], c.e[i])
               /\ BandIdentities(c.down[i], c.up[i], c.y[i], c.e[i])

\* C5 amended: lower[i] and upper[i] are the floating-point results of
\* y[i] - e[i] and y[i] + e[i], unclamped (a negative lower bound is passed on);
\* the two identities hold for the points where neither operation rounds.
C5_ErrorBand ==
    \A c \in Curves :
        /\ Len(c.down) = Len(c.y)
        /\ Len(c.up) = Len(c.y)
        /\ \A i \in 1..Len(c.y) :
               /\ c.down[i] = FSub(c.y[i], c.e[i])
               /\ c.up[i] = FAdd(c.y[i], c.e[i])
               /\ BandIsExact(c.y[i], c.e[i]) =>
                      BandIdentities(c.down[i], c.up[i], c.y[i], c.e[i])

\* C5 witness: a curve was drawn with a point y = 1, e = 3, whose lower bound
\* -2 is below zero, and the identities hold there
C5_Witness ==
    \E c \in Curves : \E i \in 1..Len(c.y) :
        /\ c.y[i] = FromInt(1)
        /\ c.e[i] = FromInt(3)
        /\ c.down[i] = FromInt(-2)
        /\ c.up[i] = FromInt(4)
        /\ BandIsExact(c.y[i], c.e[i])
        /\ BandIdentities(c.down[i], c.up[i], c.y[i], c.e[i])

----------------------------------------------------------------------------
(* Properties of scripts/plot/multi_bar.py *)

\* the input of the example of the doc comment of extract
ExampleInput ==
    <<[key |-> "age",
       value |-> <<[key |-> "alice", value |-> Decimal(31, 1)],
                   [key |-> "bob", value |-> Decimal(28, 1)],
                   [key |-> "charlie", value |-> Decimal(44, 1)]>>],
      [key |-> "height",
       value |-> <<[key |-> "alice", value |-> Decimal(150, 100)],
                   [key |-> "bob", value |-> Decimal(182, 100)],
                   [key |-> "charlie", value |-> Decimal(165, 100)]>>],
      [key |-> "weight",
       value |-> <<[key |-> "alice", value |-> Decimal(653, 10)],
                   [key |-> "bob", value |-> Decimal(981, 10)],
                   [key |-> "charlie", value |-> Decimal(687, 10)]>>]>>

\* the output the doc comment gives for it
ExampleGroups == <<"age", "height", "weight">>

ExampleMeasurements ==
    <<[key |-> "alice", value |-> <<Decimal(150, 100), Decimal(31, 1), Decimal(653, 10)>>],
      [key |-> "bob", value |-> <<Decimal(182, 100), Decimal(28, 1), Decimal(981, 10)>>],
      [key |-> "charlie", value |-> <<Decimal(165, 100), Decimal(44, 1), Decimal(687, 10)>>]>>

\* extract has returned: `data` holds its result for the dict read from args.data
ExtractReturned == script = "multi_bar" /\ pc # "extract" /\ exit_code # 1

\* groups are the top-level keys in input order; there is a measurement list per
\* name of the first group, of the length of groups, its i-th element being the
\* value of the name in the i-th group
ExtractAligned ==
    LET d == args.data.object
    IN  /\ Len(data.groups) = Len(d)
        /\ \A i \in 1..Len(d) : data.groups[i] = d[i].key
        /\ Len(data.measurements) = Len(d[1].value)
        /\ \A n \in 1..Len(data.measurements) :
               LET m == data.measurements[n]
               IN  /\ m.key = d[1].value[n].key
                   /\ Len(m.value) = Len(data.groups)
                   /\ \A i \in 1..Len(m.value) :
                          \E e \in 1..Len(d[i].value) :
                              /\ d[i].value[e].key = m.key
                              /\ d[i].value[e].value = m.value[i]

\* C12: what extract of multi_bar.py returns is aligned position by position
\* with groups (groups are the top-level keys in input order, and every name of
\* the first group has a list whose i-th element is data[groups[i]][name]), and
\* this is what the documented example describes: on the example's input, extract
\* returns the example's output.
C12_AsClaimed ==
    ExtractReturned =>
        /\ ExtractAligned
        /\ args.data.object = ExampleInput =>
               /\ data.groups = ExampleGroups
               /\ data.measurements = ExampleMeasurements

====
